---- MODULE Spec2Model ----
(***************************************************************************)
(* Model of the dont_panic crate (src/src/lib.rs) and of the               *)
(* dont_panic_slice crate (src/slice/src/lib.rs).                          *)
(*                                                                         *)
(* A borrowed slice is a fat pointer (address, length) into a memory of    *)
(* cells; a DPSlice reference is the same fat pointer reinterpreted.  The  *)
(* build mode (cargo feature "panic") is fixed when the program is built.  *)
(* Every operation yields an outcome record:                               *)
(*   invoked   - dont_panic! was executed                                  *)
(*   msg       - the message handed to dont_panic! ("" when none)          *)
(*   fatal     - "none", "rust_panic_called_where_shouldnt" (call of the   *)
(*               undefined symbol), "panic" (panic! expanded from          *)
(*               dont_panic!), "std_panic" (a panic raised by the standard *)
(*               library or by a caller's closure itself)                  *)
(*   panic_msg - the message of the panic, "" when there is none           *)
(*   returned  - control came back to the caller                           *)
(*   value     - what was returned (NoValue when nothing was)              *)
(*   guard     - state of the DontPanic guard of call()                    *)
(*   seq       - contents of the slice after the operation                 *)
(***************************************************************************)
EXTENDS Integers, Sequences, TLC

VARIABLES feature_panic, mem, slice, dps, res

vars == <<feature_panic, mem, slice, dps, res>>

\* Longest slice explored.
MaxLen == 3

\* Start addresses of the borrowed region.
Ptrs == {0, 1}

\* Element values stored in the cells.
Values == {10, 20}

\* Cells of memory: room for the longest slice at the highest start address.
MemSize == MaxLen + 1

Addrs == 0 .. (MemSize - 1)

\* usize arguments tried by the operations: valid ones, the boundary, beyond.
Args == 0 .. (MaxLen + 1)

NoValue == <<>>

Min(a, b) == IF a < b THEN a ELSE b

Max(a, b) == IF a > b THEN a ELSE b

(***************************************************************************)
(* References and memory                                                   *)
(***************************************************************************)

\* The elements a fat pointer r designates in memory m.
Deref(m, r) == [k \in 1 .. r.len |-> m[r.ptr + k - 1]]

\* Memory m after the region of r is overwritten by the sequence s.
Store(m, r, s) ==
    [a \in DOMAIN m |->
        IF a >= r.ptr /\ a < r.ptr + r.len THEN s[a - r.ptr + 1] ELSE m[a]]

IsMut(r) == r.ty \in {"&mut [T]", "&mut DPSlice<T>"}

\* impl From<&[T]> for &DPSlice<T>: transmute of the fat pointer.
from(s) == [ty |-> "&DPSlice<T>", ptr |-> s.ptr, len |-> s.len]

\* Faulty variant of from_mut: the adapter designates a copy of the slice
\* placed at address 0 instead of the borrowed region itself.
from_mut_copy(s) == [ty |-> "&mut DPSlice<T>", ptr |-> 0, len |-> s.len]

\* impl From<&mut [T]> for &mut DPSlice<T>: transmute of the fat pointer.
from_mut(s) == [ty |-> "&mut DPSlice<T>", ptr |-> s.ptr, len |-> s.len]

\* DPSlice::as_rust_slice: transmute back to &[T].
as_rust_slice(this) == [ty |-> "&[T]", ptr |-> this.ptr, len |-> this.len]

\* DPSlice::as_rust_slice_mut: transmute back to &mut [T].
as_rust_slice_mut(this) == [ty |-> "&mut [T]", ptr |-> this.ptr, len |-> this.len]

\* DPSlice::len
len(this) == as_rust_slice(this).len

\* DPSlice::is_empty
is_empty(this) == as_rust_slice(this).len = 0

(***************************************************************************)
(* Outcomes                                                                *)
(***************************************************************************)

\* Normal return of value v, the slice holding s afterwards.
Ret(v, s) ==
    [invoked |-> FALSE, msg |-> "", fatal |-> "none", panic_msg |-> "",
     returned |-> TRUE, value |-> v, guard |-> "none", seq |-> s]

\* A panic raised outside dont_panic! (standard library, caller's closure).
StdPanic(m, s) ==
    [invoked |-> FALSE, msg |-> "", fatal |-> "std_panic", panic_msg |-> m,
     returned |-> FALSE, value |-> NoValue, guard |-> "none", seq |-> s]

\* dont_panic! without feature "panic": call of the undefined symbol
\* rust_panic_called_where_shouldnt() -> !; the macro's tokens are dropped.
dont_panic_link(m, s) ==
    [invoked |-> TRUE, msg |-> m, fatal |-> "rust_panic_called_where_shouldnt",
     panic_msg |-> "", returned |-> FALSE, value |-> NoValue,
     guard |-> "none", seq |-> s]

\* Faulty variant of dont_panic_panic: panic!() that drops the arguments.
dont_panic_panic_bare(m, s) ==
    [invoked |-> TRUE, msg |-> m, fatal |-> "panic", panic_msg |-> "explicit panic",
     returned |-> FALSE, value |-> NoValue, guard |-> "none", seq |-> s]

\* dont_panic! with feature "panic": panic!($($x)*); panic!() with no
\* arguments carries the message "explicit panic".
dont_panic_panic(m, s) ==
    [invoked |-> TRUE, msg |-> m, fatal |-> "panic",
     panic_msg |-> IF m = "" THEN "explicit panic" ELSE m,
     returned |-> FALSE, value |-> NoValue, guard |-> "none", seq |-> s]

\* Faulty variant of dp_assert: the negation of the condition is missing.
dp_assert_inverted(f, c, s) ==
    IF c.val
    THEN IF f THEN dont_panic_panic("assertion failed: " \o c.src, s)
              ELSE dont_panic_link("assertion failed: " \o c.src, s)
    ELSE Ret(NoValue, s)

\* dont_panic!(m) under the build mode f, the slice holding s.
dont_panic(f, m, s) == IF f THEN dont_panic_panic(m, s) ELSE dont_panic_link(m, s)

\* dp_assert!($cond): c is the condition, [src |-> its source text, val |-> its value].
dp_assert(f, c, s) ==
    IF ~c.val
    THEN dont_panic(f, "assertion failed: " \o c.src, s)
    ELSE Ret(NoValue, s)

\* dp_assert!($cond, $($arg)+): m is the caller's formatted message.
dp_assert_msg(f, c, m, s) ==
    IF ~c.val THEN dont_panic(f, m, s) ELSE Ret(NoValue, s)

\* "index out of bounds: the len is {} but the index is {}"
index_msg(n, i) ==
    "index out of bounds: the len is " \o ToString(n)
        \o " but the index is " \o ToString(i)

\* "index {} out of range for slice of length {}"
split_msg(mid, n) ==
    "index " \o ToString(mid) \o " out of range for slice of length "
        \o ToString(n)

(***************************************************************************)
(* The standard slice operations the adapter forwards to                   *)
(***************************************************************************)

\* [T]::get: Some(element) as a one-element tuple, None as the empty tuple.
slice_get(s, i) == IF i < Len(s) THEN <<s[i + 1]>> ELSE <<>>

\* [T]::get_mut: Some(place) as a one-element tuple holding the offset of
\* the element the &mut T designates, None as the empty tuple.
slice_get_mut(s, i) == IF i < Len(s) THEN <<i>> ELSE <<>>

\* [T]::swap: bounds-checks a, then b, then exchanges the two elements.
slice_swap(s, a, b) ==
    IF a >= Len(s) THEN StdPanic(index_msg(Len(s), a), s)
    ELSE IF b >= Len(s) THEN StdPanic(index_msg(Len(s), b), s)
    ELSE Ret(NoValue, [s EXCEPT ![a + 1] = s[b + 1], ![b + 1] = s[a + 1]])

\* [T]::windows: all contiguous windows of length size, in order.
slice_windows(s, size) ==
    IF size = 0 THEN StdPanic("window size must be non-zero", s)
    ELSE Ret([k \in 1 .. Max(0, Len(s) - size + 1) |->
                 SubSeq(s, k, k + size - 1)], s)

\* [T]::chunks: disjoint chunks of length size, the last one maybe shorter.
slice_chunks(s, size) ==
    IF size = 0 THEN StdPanic("chunk size must be non-zero", s)
    ELSE Ret([k \in 1 .. ((Len(s) + size - 1) \div size) |->
                 SubSeq(s, (k - 1) * size + 1, Min(k * size, Len(s)))], s)

\* [T]::split_at: the partitions [0, mid) and [mid, len).
slice_split_at(s, mid) ==
    IF mid > Len(s) THEN StdPanic("mid > len", s)
    ELSE Ret(<<SubSeq(s, 1, mid), SubSeq(s, mid + 1, Len(s))>>, s)

(***************************************************************************)
(* DPSlice<T>: f is the build mode, s the contents of the borrowed slice   *)
(***************************************************************************)

\* DPSlice::first: Some(element) or None, as [T]::first gives it.
first(s) == Ret(IF Len(s) = 0 THEN <<>> ELSE <<s[1]>>, s)

\* DPSlice::first_mut: Some(place of the first element) or None.
first_mut(s) == Ret(IF Len(s) = 0 THEN <<>> ELSE <<0>>, s)

\* DPSlice::split_first: Some((first element, the rest)) or None.
split_first(s) ==
    Ret(IF Len(s) = 0 THEN <<>> ELSE <<(<<s[1], SubSeq(s, 2, Len(s))>>)>>, s)

\* DPSlice::split_first_mut: takes &self and forwards to [T]::split_first.
split_first_mut(s) ==
    Ret(IF Len(s) = 0 THEN <<>> ELSE <<(<<s[1], SubSeq(s, 2, Len(s))>>)>>, s)

\* DPSlice::split_last: Some((last element, the elements before it)) or None.
split_last(s) ==
    Ret(IF Len(s) = 0 THEN <<>>
        ELSE <<(<<s[Len(s)], SubSeq(s, 1, Len(s) - 1)>>)>>, s)

\* DPSlice::split_last_mut: takes &mut self and forwards to [T]::split_last.
split_last_mut(s) ==
    Ret(IF Len(s) = 0 THEN <<>>
        ELSE <<(<<s[Len(s)], SubSeq(s, 1, Len(s) - 1)>>)>>, s)

\* Faulty variant of index: the bounds test is one too strict, the last
\* element is treated as out of bounds.
index_last_rejected(f, s, i) ==
    IF i + 1 < Len(s) THEN Ret(s[i + 1], s)
    ELSE dont_panic(f, index_msg(Len(s), i), s)

\* Index<usize>::index
index(f, s, i) ==
    LET o == slice_get(s, i)
    IN  IF Len(o) = 1 THEN Ret(o[1], s)
        ELSE dont_panic(f, index_msg(Len(s), i), s)

\* Faulty variant of index_mut: the bounds test is one too strict.
index_mut_last_rejected(s, i) ==
    IF i + 1 < Len(s) THEN Ret(i, s)
    ELSE dont_panic_link(index_msg(Len(s), i), s)

\* IndexMut<usize>::index_mut: the value is the place of the element.
\* The crate is built only without feature "panic" (see Built), so the
\* dont_panic! of the closure is the call of the undefined symbol.
index_mut(s, i) ==
    LET o == slice_get_mut(s, i)
    IN  IF Len(o) = 1 THEN Ret(o[1], s)
        ELSE dont_panic_link(index_msg(Len(s), i), s)

\* DPSlice::swap
swap(f, s, a, b) ==
    IF a > Len(s) THEN dont_panic(f, index_msg(Len(s), a), s)
    ELSE IF b > Len(s) THEN dont_panic(f, index_msg(Len(s), b), s)
    ELSE slice_swap(s, a, b)

\* Faulty variant of windows: the dp_assert! is missing.
windows_unchecked(f, s, size) == slice_windows(s, size)

\* DPSlice::windows
windows(f, s, size) ==
    LET a == dp_assert(f, [src |-> "size != 0", val |-> size # 0], s)
    IN  IF a.returned THEN slice_windows(s, size) ELSE a

\* DPSlice::chunks
chunks(f, s, size) ==
    LET a == dp_assert(f, [src |-> "size != 0", val |-> size # 0], s)
    IN  IF a.returned THEN slice_chunks(s, size) ELSE a

\* DPSlice::chunks_mut
chunks_mut(f, s, size) ==
    LET a == dp_assert(f, [src |-> "size != 0", val |-> size # 0], s)
    IN  IF a.returned THEN slice_chunks(s, size) ELSE a

\* Faulty variant of split_at: the bounds test is >= instead of >.
split_at_ge(f, s, mid) ==
    IF mid >= Len(s) THEN dont_panic(f, split_msg(mid, Len(s)), s)
    ELSE slice_split_at(s, mid)

\* DPSlice::split_at
split_at(f, s, mid) ==
    IF mid > Len(s) THEN dont_panic(f, split_msg(mid, Len(s)), s)
    ELSE slice_split_at(s, mid)

\* DPSlice::split_at_mut
split_at_mut(f, s, mid) ==
    IF mid > Len(s) THEN dont_panic(f, split_msg(mid, Len(s)), s)
    ELSE slice_split_at(s, mid)

(***************************************************************************)
(* dont_panic::call: c is the closure, [unwinds |-> it panics,             *)
(* ret |-> the value it returns otherwise, panic_msg |-> its panic message]*)
(***************************************************************************)

\* Faulty variant of call_guarded: mem::forget(guard) is missing, so the
\* guard is dropped at the end of the scope on every path.
call_guarded_unforgotten(c, s) == [dont_panic_link("", s) EXCEPT !.guard = "dropped"]

\* call without feature "panic": the DontPanic guard is dropped while the
\* closure's panic unwinds (drop runs dont_panic!()), forgotten otherwise.
call_guarded(c, s) ==
    IF c.unwinds
    THEN [dont_panic_link("", s) EXCEPT !.guard = "dropped"]
    ELSE [Ret(c.ret, s) EXCEPT !.guard = "forgotten"]

\* call with feature "panic": f() and nothing else.
call_passthrough(c, s) ==
    IF c.unwinds THEN StdPanic(c.panic_msg, s) ELSE Ret(c.ret, s)

call(f, c, s) == IF f THEN call_passthrough(c, s) ELSE call_guarded(c, s)

\* tests::it_works / panic / no_panic: if should_panic { dont_panic!(); }
if_dont_panic(f, should_panic, s) ==
    IF should_panic THEN dont_panic(f, "", s) ELSE Ret(NoValue, s)

(***************************************************************************)
(* The program: a slice is borrowed, converted to the adapter, and the     *)
(* adapter's operations are called one after another until one is fatal.   *)
(* res records the last call: its name, the contents of the slice when it  *)
(* was made, its arguments and its outcome.                                *)
(***************************************************************************)

\* The dont_panic_slice crate is compiled as a whole, and only against
\* dont_panic without feature "panic": with the feature, dont_panic! keeps
\* its tokens and the closure of index_mut uses self.len() while *self is
\* mutably borrowed, which the borrow checker rejects (E0502).  A build
\* with the feature holds the dont_panic crate alone.
Built == ~feature_panic

\* What stands for the adapter reference in a build that has no DPSlice.
NoAdapter == [ty |-> "none", ptr |-> 0, len |-> 0]

\* Contents of the underlying sequence, read through the original borrow.
Underlying == Deref(mem, slice)

\* Contents seen through the adapter.
Self == Deref(mem, as_rust_slice(dps))

\* No fatal outcome so far: the program is still running.
Alive == res.out.fatal = "none"

\* Closures handed to call().
Closures ==
    {[unwinds |-> u, ret |-> v, panic_msg |-> IF u THEN "closure panicked" ELSE ""] :
        u \in BOOLEAN, v \in Values}

\* Conditions handed to dp_assert!.
Conds == {[src |-> "x < y", val |-> b] : b \in BOOLEAN}

Result(op, args, out) == [op |-> op, self |-> Self, args |-> args, out |-> out]

Init ==
    /\ feature_panic \in BOOLEAN
    /\ mem \in [Addrs -> Values]
    /\ slice \in {[ty |-> t, ptr |-> p, len |-> n] :
                    t \in {"&[T]", "&mut [T]"}, p \in Ptrs, n \in 0 .. MaxLen}
    /\ dps = IF ~Built THEN NoAdapter
             ELSE IF IsMut(slice) THEN from_mut(slice) ELSE from(slice)
    /\ res = [op |-> "init", self |-> <<>>, args |-> <<>>, out |-> Ret(NoValue, <<>>)]

\* A use of the dont_panic crate: it exists in both build modes.
Macro(op, args, out) ==
    /\ Alive
    /\ res' = [op |-> op, self |-> Underlying, args |-> args, out |-> out]
    /\ UNCHANGED <<feature_panic, mem, slice, dps>>

\* An operation of the adapter taking &self.
Shared(op, args, out) ==
    /\ Built
    /\ Alive
    /\ res' = Result(op, args, out)
    /\ UNCHANGED <<feature_panic, mem, slice, dps>>

\* An operation taking &mut self; what it leaves in the slice is written
\* through the adapter's own fat pointer.
Exclusive(op, args, out) ==
    /\ Built
    /\ Alive
    /\ IsMut(dps)
    /\ res' = Result(op, args, out)
    /\ mem' = Store(mem, as_rust_slice_mut(dps), out.seq)
    /\ UNCHANGED <<feature_panic, slice, dps>>

OpLen == Shared("len", <<>>, Ret(len(dps), Self))

OpIsEmpty == Shared("is_empty", <<>>, Ret(is_empty(dps), Self))

OpAsRustSlice == Shared("as_rust_slice", <<>>, Ret(as_rust_slice(dps), Self))

OpAsRustSliceMut ==
    Exclusive("as_rust_slice_mut", <<>>, Ret(as_rust_slice_mut(dps), Self))

OpFirst == Shared("first", <<>>, first(Self))

\* if let Some(x) = dps.first_mut() { *x = v }
OpFirstMut ==
    \E v \in Values :
        LET out == first_mut(Self)
        IN  /\ Built
            /\ Alive
            /\ IsMut(dps)
            /\ res' = Result("first_mut", <<v>>, out)
            /\ mem' = IF Len(out.value) = 1
                      THEN [mem EXCEPT ![dps.ptr + out.value[1]] = v]
                      ELSE mem
            /\ UNCHANGED <<feature_panic, slice, dps>>

OpSplitFirst == Shared("split_first", <<>>, split_first(Self))

OpSplitFirstMut == Shared("split_first_mut", <<>>, split_first_mut(Self))

OpSplitLast == Shared("split_last", <<>>, split_last(Self))

OpSplitLastMut == Exclusive("split_last_mut", <<>>, split_last_mut(Self))

OpIndex == \E i \in Args : Shared("index", <<i>>, index(feature_panic, Self, i))

\* dps[i] = v: index_mut yields the place, the caller writes v through it.
OpIndexMut ==
    \E i \in Args, v \in Values :
        LET out == index_mut(Self, i)
        IN  /\ Built
            /\ Alive
            /\ IsMut(dps)
            /\ res' = Result("index_mut", <<i, v>>, out)
            /\ mem' = IF out.returned
                      THEN [mem EXCEPT ![dps.ptr + out.value] = v]
                      ELSE mem
            /\ UNCHANGED <<feature_panic, slice, dps>>

OpSwap ==
    \E a \in Args, b \in Args :
        Exclusive("swap", <<a, b>>, swap(feature_panic, Self, a, b))

OpWindows ==
    \E size \in Args : Shared("windows", <<size>>, windows(feature_panic, Self, size))

OpChunks ==
    \E size \in Args : Shared("chunks", <<size>>, chunks(feature_panic, Self, size))

OpChunksMut ==
    \E size \in Args :
        Exclusive("chunks_mut", <<size>>, chunks_mut(feature_panic, Self, size))

OpSplitAt ==
    \E mid \in Args : Shared("split_at", <<mid>>, split_at(feature_panic, Self, mid))

OpSplitAtMut ==
    \E mid \in Args :
        Exclusive("split_at_mut", <<mid>>, split_at_mut(feature_panic, Self, mid))

OpDontPanic ==
    \E b \in BOOLEAN :
        Macro("if_dont_panic", <<b>>, if_dont_panic(feature_panic, b, Underlying))

OpDpAssert ==
    \E c \in Conds : Macro("dp_assert", <<c>>, dp_assert(feature_panic, c, Underlying))

OpDpAssertMsg ==
    \E c \in Conds :
        Macro("dp_assert_msg", <<c, "x must be below y">>,
               dp_assert_msg(feature_panic, c, "x must be below y", Underlying))

OpCall == \E c \in Closures : Macro("call", <<c>>, call(feature_panic, c, Underlying))

Next ==
    \/ OpLen
    \/ OpIsEmpty
    \/ OpAsRustSlice
    \/ OpAsRustSliceMut
    \/ OpFirst
    \/ OpFirstMut
    \/ OpSplitFirst
    \/ OpSplitFirstMut
    \/ OpSplitLast
    \/ OpSplitLastMut
    \/ OpIndex
    \/ OpIndexMut
    \/ OpSwap
    \/ OpWindows
    \/ OpChunks
    \/ OpChunksMut
    \/ OpSplitAt
    \/ OpSplitAtMut
    \/ OpDontPanic
    \/ OpDpAssert
    \/ OpDpAssertMsg
    \/ OpCall

Spec == Init /\ [][Next]_vars

TypeOK ==
    /\ feature_panic \in BOOLEAN
    /\ res.out.fatal \in {"none", "rust_panic_called_where_shouldnt", "panic", "std_panic"}

(***************************************************************************)
(* Properties                                                              *)
(***************************************************************************)

\* t is s with the elements at positions a and b exchanged.
Exchanged(s, t, a, b) ==
    /\ a < Len(s)
    /\ b < Len(s)
    /\ t = [s EXCEPT ![a + 1] = s[b + 1], ![b + 1] = s[a + 1]]

BoundsCheckedOps ==
    {"index", "index_mut", "swap", "split_at", "split_at_mut",
     "windows", "chunks", "chunks_mut"}

\* C1: index(i) with i < length(seq) returns seq[i] and does not execute
\* dont_panic!; with i >= length(seq) it executes dont_panic! with the
\* message "index out of bounds: the len is {length} but the index is {i}"
\* and returns no element.
C1_IndexContract ==
    res.op = "index" =>
        LET i == res.args[1]
            n == Len(Underlying)
        IN  IF i < n
            THEN /\ ~res.out.invoked
                 /\ res.out.fatal = "none"
                 /\ res.out.returned
                 /\ res.out.value = Underlying[i + 1]
            ELSE /\ res.out.invoked
                 /\ res.out.msg = index_msg(n, i)
                 /\ (n = 3 /\ i = 3) =>
                        res.out.msg = "index out of bounds: the len is 3 but the index is 3"
                 /\ ~res.out.returned
                 /\ res.out.value = NoValue

\* index one past the end of a slice of maximal length was called.
C1_Witness ==
    /\ res.op = "index"
    /\ Len(res.self) = MaxLen
    /\ res.args[1] = MaxLen
    /\ res.out.invoked

\* C2: no bounds-checked adapter operation reaches the standard library's
\* own bounds-check panic: whenever the forwarded operation would panic,
\* dont_panic! has been executed instead.
C2_NoStdPanic ==
    res.op \in BoundsCheckedOps => res.out.fatal # "std_panic"

\* C3: swap(a, b) on a sequence of length n executes dont_panic! exactly
\* when a > n or b > n, and in every other case, an index equal to n
\* included, returns with the elements at positions a and b exchanged.
C3_SwapExchangesOtherwise ==
    res.op = "swap" =>
        LET a == res.args[1]
            b == res.args[2]
            n == Len(res.self)
        IN  /\ res.out.invoked <=> (a > n \/ b > n)
            /\ ~res.out.invoked =>
                   /\ res.out.returned
                   /\ Exchanged(res.self, Underlying, a, b)

\* C4: split_at(mid) and split_at_mut(mid) with mid <= length(seq) do not
\* execute dont_panic! and return the partitions [0, mid) and [mid, length),
\* of sizes mid and length - mid, whose concatenation is seq; with
\* mid > length(seq) they execute dont_panic! with the message
\* "index {mid} out of range for slice of length {length}".
C4_SplitAtContract ==
    res.op \in {"split_at", "split_at_mut"} =>
        LET mid == res.args[1]
            n == Len(Underlying)
        IN  IF mid <= n
            THEN /\ ~res.out.invoked
                 /\ res.out.fatal = "none"
                 /\ res.out.returned
                 /\ Len(res.out.value[1]) = mid
                 /\ Len(res.out.value[2]) = n - mid
                 /\ res.out.value[1] \o res.out.value[2] = Underlying
                 /\ \A k \in 1 .. mid : res.out.value[1][k] = Underlying[k]
                 /\ mid = n => res.out.value = <<Underlying, <<>>>>
            ELSE /\ res.out.invoked
                 /\ ~res.out.returned
                 /\ res.out.msg = split_msg(mid, n)
                 /\ (mid = 4 /\ n = 3) =>
                        res.out.msg = "index 4 out of range for slice of length 3"

\* split_at at the very end of a slice of maximal length was called.
C4_Witness ==
    /\ res.op = "split_at"
    /\ Len(res.self) = MaxLen
    /\ res.args[1] = MaxLen
    /\ res.out.returned

\* C5: without feature "panic", call(f) returns f's result with the guard
\* forgotten and dont_panic! not executed when f returns, and the guard is
\* dropped and executes dont_panic! when f unwinds; with feature "panic",
\* call(f) installs no guard, returns f's result or lets f's own panic
\* propagate, and never executes dont_panic!.
C5_CallGuard ==
    res.op = "call" =>
        LET c == res.args[1]
        IN  IF feature_panic
            THEN /\ res.out.guard = "none"
                 /\ ~res.out.invoked
                 /\ c.unwinds =>
                        /\ res.out.fatal = "std_panic"
                        /\ res.out.panic_msg = c.panic_msg
                        /\ ~res.out.returned
                 /\ ~c.unwinds =>
                        /\ res.out.fatal = "none"
                        /\ res.out.returned
                        /\ res.out.value = c.ret
            ELSE /\ c.unwinds =>
                        /\ res.out.guard = "dropped"
                        /\ res.out.invoked
                        /\ ~res.out.returned
                 /\ ~c.unwinds =>
                        /\ res.out.guard = "forgotten"
                        /\ ~res.out.invoked
                        /\ res.out.fatal = "none"
                        /\ res.out.returned
                        /\ res.out.value = c.ret

\* call was given a closure that returns, in a build without feature "panic".
C5_Witness ==
    /\ res.op = "call"
    /\ ~feature_panic
    /\ ~res.args[1].unwinds
    /\ res.out.guard = "forgotten"

\* C6: an executed dont_panic! never returns and yields no value; without
\* feature "panic" it is the call of rust_panic_called_where_shouldnt, with
\* it a panic! carrying the arguments dont_panic! was given; whether it is
\* executed does not depend on the build mode: guarded by a condition, it
\* is executed exactly when the condition holds.
C6_FatalInBothModes ==
    /\ res.out.invoked =>
           /\ ~res.out.returned
           /\ res.out.value = NoValue
           /\ ~feature_panic =>
                  /\ res.out.fatal = "rust_panic_called_where_shouldnt"
                  /\ res.out.panic_msg = ""
           /\ feature_panic =>
                  /\ res.out.fatal = "panic"
                  /\ res.out.msg # "" => res.out.panic_msg = res.out.msg
    /\ res.out.returned => (~res.out.invoked /\ res.out.fatal = "none")
    /\ res.op = "if_dont_panic" => (res.out.invoked <=> res.args[1])

\* With feature "panic", dp_assert! with a message was given a false
\* condition and dont_panic! panicked with that message.
C6_Witness ==
    /\ feature_panic
    /\ res.op = "dp_assert_msg"
    /\ res.out.invoked
    /\ res.out.fatal = "panic"
    /\ res.out.panic_msg = "x must be below y"

\* C7: windows, chunks and chunks_mut execute dont_panic! exactly when
\* size = 0, whatever the sequence; windows(size) with size # 0 yields
\* max(0, length - size + 1) windows, none when size > length.
C7_WindowsChunksZero ==
    res.op \in {"windows", "chunks", "chunks_mut"} =>
        LET size == res.args[1]
            n == Len(Underlying)
        IN  /\ res.out.invoked <=> size = 0
            /\ size # 0 =>
                   /\ res.out.returned
                   /\ res.out.fatal = "none"
            /\ (res.op = "windows" /\ size # 0) =>
                   /\ Len(res.out.value) = Max(0, n - size + 1)
                   /\ size > n => res.out.value = <<>>
                   /\ \A k \in 1 .. Len(res.out.value) :
                          /\ Len(res.out.value[k]) = size
                          /\ res.out.value[k][1] = Underlying[k]

\* windows was called with a size larger than the slice.
C7_Witness ==
    /\ res.op = "windows"
    /\ res.args[1] > Len(res.self)
    /\ res.out.returned
    /\ res.out.value = <<>>

\* C8: dp_assert! with a true condition has no effect and returns; with a
\* false condition it executes dont_panic!, given "assertion failed: "
\* followed by the source text of the condition (one-argument form) or the
\* caller's message (form with a message), in both build modes.
C8_DpAssert ==
    /\ res.op \in {"dp_assert", "dp_assert_msg"} =>
           LET c == res.args[1]
           IN  /\ c.val =>
                      /\ ~res.out.invoked
                      /\ res.out.fatal = "none"
                      /\ res.out.returned
                      /\ Underlying = res.self
               /\ ~c.val =>
                      /\ res.out.invoked
                      /\ ~res.out.returned
                      /\ res.op = "dp_assert" =>
                             res.out.msg = "assertion failed: x < y"
                      /\ res.op = "dp_assert_msg" => res.out.msg = res.args[2]
    /\ (res.op \in {"windows", "chunks", "chunks_mut"} /\ res.args[1] = 0) =>
           res.out.msg = "assertion failed: size != 0"

\* dp_assert! was given a false condition.
C8_Witness ==
    /\ res.op = "dp_assert"
    /\ ~res.args[1].val
    /\ res.out.invoked

\* C9: dps[i] = v with i < length(seq) leaves seq as the direct assignment
\* seq[i] = v would, the length and every other element unchanged, and
\* does not execute dont_panic!; with i >= length(seq) index_mut executes
\* dont_panic! and nothing is modified.
C9_IndexMutWrites ==
    res.op = "index_mut" =>
        LET i == res.args[1]
            v == res.args[2]
            n == Len(res.self)
        IN  IF i < n
            THEN /\ ~res.out.invoked
                 /\ res.out.returned
                 /\ Len(Underlying) = n
                 /\ Underlying[i + 1] = v
                 /\ \A k \in 1 .. n : k # i + 1 => Underlying[k] = res.self[k]
                 /\ Underlying = [res.self EXCEPT ![i + 1] = v]
            ELSE /\ res.out.invoked
                 /\ ~res.out.returned
                 /\ res.out.msg = index_msg(n, i)
                 /\ Underlying = res.self

\* The last element of a slice of maximal length was given a new value.
C9_Witness ==
    /\ res.op = "index_mut"
    /\ ~feature_panic
    /\ Len(res.self) = MaxLen
    /\ res.args[1] = MaxLen - 1
    /\ res.self[MaxLen] # res.args[2]
    /\ Underlying[MaxLen] = res.args[2]

\* C10: in a build that holds the adapter, the adapter reference converted back to a slice reference has the
\* address and the length of the original slice reference, and at all
\* times len(), is_empty() and the contents seen through the adapter are
\* those of the underlying sequence.
C10_Reinterpretation ==
    Built =>
        /\ as_rust_slice(dps).ptr = slice.ptr
        /\ as_rust_slice(dps).len = slice.len
        /\ IsMut(dps) => as_rust_slice_mut(dps) = slice
        /\ ~IsMut(dps) => as_rust_slice(dps) = slice
        /\ len(dps) = Len(Underlying)
        /\ is_empty(dps) <=> Underlying = <<>>
        /\ Self = Underlying
        /\ res.op \in {"as_rust_slice", "as_rust_slice_mut"} =>
               /\ res.out.value.ptr = slice.ptr
               /\ res.out.value.len = slice.len
        /\ res.op = "len" => res.out.value = Len(Underlying)
        /\ res.op = "is_empty" => (res.out.value <=> Len(Underlying) = 0)

\* A mutably borrowed non-empty slice not at address 0 was converted to the
\* adapter and back.
C10_Witness ==
    /\ res.op = "as_rust_slice_mut"
    /\ slice.ptr # 0
    /\ slice.len = MaxLen
    /\ res.out.value = slice

====
